---- MODULE Spec2Model ----
(***************************************************************************)
(* Model of notepad.py, the Himalayan Expedition Analytics dashboard.      *)
(*                                                                         *)
(* The script is run top to bottom by Streamlit; an uncaught exception     *)
(* ends the run, a change of a sidebar widget starts the script again.     *)
(* One action models one section of the script (the loader call, the       *)
(* filter stage, each analytical output), pc is the position in the run.   *)
(*                                                                         *)
(* A table is [cols |-> sequence of column names, rows |-> sequence of     *)
(* rows], a row a function from the column names to cells.  A missing cell *)
(* of a text column is NA, a missing year is NaNYear.  last is a history   *)
(* variable: what the run before the current one reported.                 *)
(***************************************************************************)
EXTENDS Integers, Sequences, FiniteSets, TLC

VARIABLES files, cache, exped, members, peaks, refer, data_dict,
          selected_year, selected_country, filtered_exped, filtered_members,
          out, pc, ties, last

vars == <<files, cache, exped, members, peaks, refer, data_dict,
          selected_year, selected_country, filtered_exped, filtered_members,
          out, pc, ties, last>>

tables == <<exped, members, peaks, refer, data_dict>>

(***************************************************************************)
(* Bounds of the model.                                                    *)
(***************************************************************************)
MaxRows == 2
MaxMembers == 3
MaxPeaks == 1
MaxTopMembers == 3
MaxTopPeaks == 5

(***************************************************************************)
(* Cells and sequences.                                                    *)
(***************************************************************************)
NA == "<NA>"
NaNYear == -1
NoSelection == "<None>"
NoYear == -2

Range(s) == {s[i] : i \in DOMAIN s}

SeqsUpTo(S, n) == UNION {[1..k -> S] : k \in 0..n}

Min(a, b) == IF a <= b THEN a ELSE b

\* Series.dropna()
DropNa(s) == SelectSeq(s, LAMBDA v : v # NA)

\* the number of elements of s equal to v
RECURSIVE Count(_, _)
Count(s, v) ==
  IF s = <<>> THEN 0
  ELSE (IF s[1] = v THEN 1 ELSE 0) + Count(Tail(s), v)

\* Series.unique(): the distinct values in the order they first occur
RECURSIVE Unique(_)
Unique(s) ==
  IF s = <<>> THEN <<>>
  ELSE LET init == Unique(SubSeq(s, 1, Len(s) - 1))
           x == s[Len(s)]
       IN IF x \in Range(init) THEN init ELSE Append(init, x)

\* Series.nunique(): the number of distinct non-missing values
nunique(s) == Cardinality(Range(DropNa(s)))

\* DataFrame.head(n)
head(s, n) == SubSeq(s, 1, Min(n, Len(s)))

HasCol(t, c) == c \in Range(t.cols)

\* df[c]: the column as a sequence of cells
Column(t, c) == [i \in DOMAIN t.rows |-> t.rows[i][c]]

\* the rows whose entry of the boolean mask is true, in order
RECURSIVE Masked(_, _)
Masked(rows, mask) ==
  IF rows = <<>> THEN <<>>
  ELSE (IF mask[1] THEN <<rows[1]>> ELSE <<>>) \o Masked(Tail(rows), Tail(mask))

\* df[mask]: a new frame with the masked rows and the same columns
Where(t, mask) == [cols |-> t.cols, rows |-> Masked(t.rows, mask)]

\* series.isin(S)
isin(s, S) == [i \in DOMAIN s |-> s[i] \in S]

(***************************************************************************)
(* Strings: str.strip(), str.lower(), astype(str), substring tests, over   *)
(* the strings that occur in the modelled files.                           *)
(***************************************************************************)
strip(c) ==
  CASE c = " peakid" -> "peakid"
    [] c = "citizen " -> "citizen"
    [] c = " msuccess" -> "msuccess"
    [] c = "fname " -> "fname"
    [] c = " expid" -> "expid"
    [] c = "year " -> "year"
    [] c = " success1 " -> "success1"
    [] c = "pkname " -> "pkname"
    [] c = " refid" -> "refid"
    [] c = "Field " -> "Field"
    [] OTHER -> c

lower(s) ==
  CASE s = "Yes" -> "yes"
    [] s = "YES" -> "yes"
    [] s = "Y" -> "y"
    [] s = "TRUE" -> "true"
    [] s = "True" -> "true"
    [] s = "No" -> "no"
    [] s = "Mount Everest" -> "mount everest"
    [] s = "EVEREST" -> "everest"
    [] s = "Lhotse" -> "lhotse"
    [] s = "UNKNOWN" -> "unknown"
    [] s = "MSuccess" -> "msuccess"
    [] s = "FName" -> "fname"
    [] OTHER -> s

\* astype(str): a missing cell becomes the text "nan"
astype_str(v) == IF v = NA THEN "nan" ELSE v

\* 'name' in col.lower()
ContainsName(c) == lower(c) \in {"fname", "lname", "pkname", "name"}

\* 'success' in col.lower()
ContainsSuccess(c) == lower(c) \in {"msuccess", "success1", "success"}

\* str.contains("Everest", case=False, na=False)
ContainsEverest(v) ==
  v # NA /\ lower(v) \in {"mount everest", "everest"}

SuccessLiterals == {"true", "1", "y", "yes"}

\* astype(str).str.lower().isin(['true', '1', 'y', 'yes'])
IsSuccess(v) == lower(astype_str(v)) \in SuccessLiterals

(***************************************************************************)
(* Table Loader (load_data).                                               *)
(***************************************************************************)
EmptyTable == [cols |-> <<>>, rows |-> <<>>]

\* df.columns = df.columns.str.strip()
StripColumns(t) ==
  LET names == {strip(x) : x \in Range(t.cols)}
      old(c) == CHOOSE x \in Range(t.cols) : strip(x) = c
  IN [cols |-> [i \in DOMAIN t.cols |-> strip(t.cols[i])],
      rows |-> [i \in DOMAIN t.rows |-> [c \in names |-> t.rows[i][old(c)]]]]

\* df.fillna({c: v}, inplace=True): a column the frame lacks is skipped
fillna(t, c, v) ==
  IF ~HasCol(t, c) THEN t
  ELSE [t EXCEPT !.rows =
          [i \in DOMAIN @ |-> IF @[i][c] = NA THEN [@[i] EXCEPT ![c] = v]
                                              ELSE @[i]]]

\* a variant of load_data: the missing values are filled before the column
\* names are stripped
load_data_fill_first(f) ==
  [exped |-> StripColumns(fillna(f.exped, "success1", "unknown")),
   members |-> StripColumns(fillna(fillna(f.members, "peakid", "UNKNOWN"),
                                   "citizen", "UNKNOWN")),
   peaks |-> StripColumns(fillna(f.peaks, "pkname", "UNKNOWN")),
   refer |-> StripColumns(f.refer),
   data_dict |-> StripColumns(f.data_dict)]

load_data(f) ==
  [exped |-> fillna(StripColumns(f.exped), "success1", "unknown"),
   members |-> fillna(fillna(StripColumns(f.members), "peakid", "UNKNOWN"),
                      "citizen", "UNKNOWN"),
   peaks |-> fillna(StripColumns(f.peaks), "pkname", "UNKNOWN"),
   refer |-> StripColumns(f.refer),
   data_dict |-> StripColumns(f.data_dict)]

(***************************************************************************)
(* Aggregation helpers.                                                    *)
(***************************************************************************)
\* the largest number of occurrences in s of a key of keys
RECURSIVE MaxCount(_, _)
MaxCount(keys, s) ==
  IF keys = <<>> THEN 0
  ELSE LET c == Count(s, keys[1])
           m == MaxCount(Tail(keys), s)
       IN IF c >= m THEN c ELSE m

RemoveAt(s, i) == SubSeq(s, 1, i - 1) \o SubSeq(s, i + 1, Len(s))

\* sort_values(ascending=False) of the counts: the keys by count, largest
\* first; keys with equal counts stay in their order (tie = "first") or come
\* out reversed (tie = "last"), as the sort of the build decides
RECURSIVE SortByCount(_, _, _)
SortByCount(keys, s, tie) ==
  IF keys = <<>> THEN <<>>
  ELSE LET m == MaxCount(keys, s)
           cands == {i \in DOMAIN keys : Count(s, keys[i]) = m}
           i == IF tie = "first"
                THEN CHOOSE x \in cands : \A y \in cands : x <= y
                ELSE CHOOSE x \in cands : \A y \in cands : x >= y
       IN <<[key |-> keys[i], n |-> m]>> \o SortByCount(RemoveAt(keys, i), s, tie)

\* Series.value_counts(): missing values dropped, one entry per distinct
\* value, by count descending
value_counts(s, tie) == SortByCount(Unique(DropNa(s)), DropNa(s), tie)

\* Series.idxmax() of a value_counts(): the first key holding the maximum
idxmax(vc) ==
  LET i == CHOOSE x \in DOMAIN vc :
             /\ \A y \in DOMAIN vc : vc[y].n <= vc[x].n
             /\ \A y \in DOMAIN vc : vc[y].n = vc[x].n => x <= y
  IN vc[i].key

\* the rows of the left join of one left row with the peak rows
MergeRow(l, prows) ==
  LET hits == SelectSeq(prows, LAMBDA r : r["peakid"] = l.key)
  IN IF hits = <<>>
     THEN <<[peakid |-> l.key, num_climbers |-> l.n, pkname |-> NA]>>
     ELSE [j \in DOMAIN hits |->
             [peakid |-> l.key, num_climbers |-> l.n, pkname |-> hits[j]["pkname"]]]

\* top_peaks.merge(peaks[["peakid", "pkname"]], on="peakid", how="left")
RECURSIVE merge_left(_, _)
merge_left(left, prows) ==
  IF left = <<>> THEN <<>>
  ELSE MergeRow(left[1], prows) \o merge_left(Tail(left), prows)

\* a variant of top_peaks: an inner join, which drops the unmatched keys
top_peaks_inner(m, p, tie) ==
  merge_left(SelectSeq(value_counts(Column(m, "peakid"), tie),
                       LAMBDA l : l.key \in Range(Column(p, "peakid"))),
             p.rows)

\* lines 76-78
top_peaks(m, p, tie) ==
  merge_left(value_counts(Column(m, "peakid"), tie), p.rows)

\* (peaks_climbed / total_peaks) * 100 as shown with two decimals, in
\* hundredths of a percent
climbed_pct(m, p) ==
  LET peaks_climbed == nunique(Column(m, "peakid"))
      total_peaks == nunique(Column(p, "peakid"))
  IN (20000 * peaks_climbed + total_peaks) \div (2 * total_peaks)

name_cols(m) == SelectSeq(m.cols, ContainsName)

success_cols(m) == SelectSeq(m.cols, ContainsSuccess)

\* members[members[success_col].astype(str).str.lower().isin([...])]
successful_members(m) ==
  Where(m, [i \in DOMAIN m.rows |-> IsSuccess(m.rows[i][success_cols(m)[1]])])

\* the years of the groups of groupby("year"): missing years dropped, ascending
RECURSIVE SortedSeq(_)
SortedSeq(S) ==
  IF S = {} THEN <<>>
  ELSE LET lo == CHOOSE x \in S : \A y \in S : x <= y
       IN <<lo>> \o SortedSeq(S \ {lo})

GroupYears(e) == SortedSeq({y \in Range(Column(e, "year")) : y # NaNYear})

\* aggfunc="count" on expid: the rows of the year whose expid is not missing
TotalOf(e, y) ==
  Len(SelectSeq(e.rows, LAMBDA r : r["year"] = y /\ r["expid"] # NA))

\* lambda x: (x == "success").sum()
SuccessfulOf(e, y) ==
  Len(SelectSeq(e.rows, LAMBDA r : r["year"] = y /\ r["success1"] = "success"))

\* yearly_summary melted to long form: the totals of all years, then the
\* successes of all years
trend_data(e) ==
  LET ys == GroupYears(e)
  IN [i \in DOMAIN ys |->
        [year |-> ys[i], Metric |-> "total_expeditions", Count |-> TotalOf(e, ys[i])]]
     \o
     [i \in DOMAIN ys |->
        [year |-> ys[i], Metric |-> "successful_expeditions",
         Count |-> SuccessfulOf(e, ys[i])]]

\* peaks[peaks['pkname'].str.contains("Everest", case=False, na=False)]["peakid"]
everest_id(p) ==
  Range(Column(Where(p, [j \in DOMAIN p.rows |-> ContainsEverest(p.rows[j]["pkname"])]),
               "peakid"))

\* a variant of everest_climbers: the success literals compared without lower()
everest_climbers_cased(m, p) ==
  LET on_everest == isin(Column(m, "peakid"), everest_id(p))
  IN Len(Where(m, [i \in DOMAIN m.rows |->
                     /\ on_everest[i]
                     /\ astype_str(m.rows[i][success_cols(m)[1]]) \in SuccessLiterals]).rows)

\* line 152, everest_climbers.shape[0]
everest_climbers(m, p) ==
  LET on_everest == isin(Column(m, "peakid"), everest_id(p))
  IN Len(Where(m, [i \in DOMAIN m.rows |->
                     on_everest[i] /\ IsSuccess(m.rows[i][success_cols(m)[1]])]).rows)

(***************************************************************************)
(* The script run.                                                         *)
(***************************************************************************)
BlankOut ==
  [top5_st |-> "pending", top5 |-> <<>>,
   dims |-> <<>>,
   pct_st |-> "pending", climbed_pct |-> 0,
   most_st |-> "pending", most_successful |-> "",
   trend_st |-> "pending", trend_data |-> <<>>,
   everest_st |-> "pending", everest_climbers |-> 0,
   error |-> "", failed_at |-> ""]

NoTables ==
  [exped |-> EmptyTable, members |-> EmptyTable, peaks |-> EmptyTable,
   refer |-> EmptyTable, data_dict |-> EmptyTable]

\* an uncaught exception: Streamlit shows it and the run ends
Raise(e) ==
  /\ pc' = "crashed"
  /\ out' = [out EXCEPT !.error = e, !.failed_at = pc]

\* lines 45-49: load_data(custom_path) behind st.cache_data
Load ==
  /\ pc = "start"
  /\ IF ~cache.full /\ ~files.readable
     THEN /\ Raise("FileNotFoundError")
          /\ UNCHANGED <<cache, tables>>
     ELSE LET t == IF cache.full THEN cache.tables ELSE load_data(files)
          IN /\ cache' = [full |-> TRUE, tables |-> t]
             /\ exped' = t.exped
             /\ members' = t.members
             /\ peaks' = t.peaks
             /\ refer' = t.refer
             /\ data_dict' = t.data_dict
             /\ pc' = "filters"
             /\ out' = out
  /\ UNCHANGED <<files, selected_year, selected_country, filtered_exped,
                 filtered_members, ties, last>>

\* exped["year"].dropna().unique()
years == {y \in Range(Column(exped, "year")) : y # NaNYear}

\* members["citizen"].dropna().unique()
countries == Range(DropNa(Column(members, "citizen")))

\* st.sidebar.selectbox: one of the options, None when there is none
YearChoices == IF years = {} THEN {NoYear} ELSE years

CountryChoices == IF countries = {} THEN {NoSelection} ELSE countries

\* a variant of Filters: the filtered views are bound to the names of the
\* loaded tables
FiltersRebinding ==
  /\ pc = "filters"
  /\ HasCol(exped, "year")
  /\ HasCol(members, "citizen")
  /\ \E y \in YearChoices, c \in CountryChoices :
       /\ selected_year' = y
       /\ selected_country' = c
       /\ filtered_exped' =
            Where(exped, [i \in DOMAIN exped.rows |-> exped.rows[i]["year"] = y])
       /\ filtered_members' =
            Where(members,
                  [i \in DOMAIN members.rows |-> members.rows[i]["citizen"] = c])
       /\ exped' = filtered_exped'
       /\ members' = filtered_members'
  /\ pc' = "top5"
  /\ UNCHANGED <<files, cache, peaks, refer, data_dict, out, ties, last>>

\* lines 53-70: the sidebar filters, the filtered views and their previews
Filters ==
  /\ pc = "filters"
  /\ IF ~HasCol(exped, "year")
     THEN /\ Raise("KeyError")
          /\ UNCHANGED <<selected_year, selected_country, filtered_exped,
                         filtered_members>>
     ELSE \E y \in YearChoices :
            /\ selected_year' = y
            /\ IF ~HasCol(members, "citizen")
               THEN /\ Raise("KeyError")
                    /\ UNCHANGED <<selected_country, filtered_exped,
                                   filtered_members>>
               ELSE \E c \in CountryChoices :
                      /\ selected_country' = c
                      /\ filtered_exped' =
                           Where(exped,
                                 [i \in DOMAIN exped.rows |-> exped.rows[i]["year"] = y])
                      /\ filtered_members' =
                           Where(members,
                                 [i \in DOMAIN members.rows |->
                                    members.rows[i]["citizen"] = c])
                      /\ pc' = "top5"
                      /\ out' = out
  /\ UNCHANGED <<files, cache, tables, ties, last>>

\* a variant of Top5: the peaks are counted over the filtered members
Top5Filtered ==
  /\ pc = "top5"
  /\ IF HasCol(filtered_members, "peakid") /\ HasCol(peaks, "peakid")
     THEN IF ~HasCol(peaks, "pkname")
          THEN Raise("KeyError")
          ELSE /\ out' = [out EXCEPT
                            !.top5_st = "shown",
                            !.top5 = head(top_peaks(filtered_members, peaks, ties), 5)]
               /\ pc' = "dims"
     ELSE /\ out' = [out EXCEPT !.top5_st = "error"]
          /\ pc' = "dims"
  /\ UNCHANGED <<files, cache, tables, selected_year, selected_country,
                 filtered_exped, filtered_members, ties, last>>

\* lines 73-91: top 5 most climbed peaks
Top5 ==
  /\ pc = "top5"
  /\ IF HasCol(members, "peakid") /\ HasCol(peaks, "peakid")
     THEN IF ~HasCol(peaks, "pkname")
          THEN Raise("KeyError")
          ELSE /\ out' = [out EXCEPT !.top5_st = "shown",
                                     !.top5 = head(top_peaks(members, peaks, ties), 5)]
               /\ pc' = "dims"
     ELSE /\ out' = [out EXCEPT !.top5_st = "error"]
          /\ pc' = "dims"
  /\ UNCHANGED <<files, cache, tables, selected_year, selected_country,
                 filtered_exped, filtered_members, ties, last>>

shape(t) == <<Len(t.rows), Len(t.cols)>>

\* lines 94-99: dataset dimensions
Dimensions ==
  /\ pc = "dims"
  /\ out' = [out EXCEPT !.dims = <<shape(exped), shape(members), shape(peaks),
                                   shape(refer)>>]
  /\ pc' = "pct"
  /\ UNCHANGED <<files, cache, tables, selected_year, selected_country,
                 filtered_exped, filtered_members, ties, last>>

\* lines 105-108: percentage of peaks climbed
Percentage ==
  /\ pc = "pct"
  /\ IF ~HasCol(members, "peakid") \/ ~HasCol(peaks, "peakid")
     THEN Raise("KeyError")
     ELSE IF nunique(Column(peaks, "peakid")) = 0
          THEN Raise("ZeroDivisionError")
          ELSE /\ out' = [out EXCEPT !.pct_st = "metric",
                                     !.climbed_pct = climbed_pct(members, peaks)]
               /\ pc' = "most"
  /\ UNCHANGED <<files, cache, tables, selected_year, selected_country,
                 filtered_exped, filtered_members, ties, last>>

\* lines 111-124: most successful climber
MostSuccessful ==
  /\ pc = "most"
  /\ IF name_cols(members) # <<>> /\ success_cols(members) # <<>>
     THEN LET sm == successful_members(members)
              vc == value_counts(Column(sm, name_cols(members)[1]), ties)
          IN IF sm.rows # <<>>
             THEN IF vc = <<>>
                  THEN Raise("ValueError")
                  ELSE /\ out' = [out EXCEPT !.most_st = "metric",
                                             !.most_successful = idxmax(vc)]
                       /\ pc' = "trend"
             ELSE /\ out' = [out EXCEPT !.most_st = "no_success"]
                  /\ pc' = "trend"
     ELSE /\ out' = [out EXCEPT !.most_st = "no_columns"]
          /\ pc' = "trend"
  /\ UNCHANGED <<files, cache, tables, selected_year, selected_country,
                 filtered_exped, filtered_members, ties, last>>

\* lines 127-146: climbing trends over time
Trend ==
  /\ pc = "trend"
  /\ IF HasCol(exped, "year")
     THEN IF ~HasCol(exped, "expid") \/ ~HasCol(exped, "success1")
          THEN Raise("KeyError")
          ELSE /\ out' = [out EXCEPT !.trend_st = "chart",
                                     !.trend_data = trend_data(exped)]
               /\ pc' = "everest"
     ELSE /\ out' = [out EXCEPT !.trend_st = "no_year"]
          /\ pc' = "everest"
  /\ UNCHANGED <<files, cache, tables, selected_year, selected_country,
                 filtered_exped, filtered_members, ties, last>>

\* lines 149-158: successful Everest climbers
Everest ==
  /\ pc = "everest"
  /\ IF HasCol(members, "peakid") /\ success_cols(members) # <<>>
     THEN IF ~HasCol(peaks, "pkname") \/ ~HasCol(peaks, "peakid")
          THEN Raise("KeyError")
          ELSE /\ out' = [out EXCEPT !.everest_st = "metric",
                                     !.everest_climbers = everest_climbers(members, peaks)]
               /\ pc' = "done"
     ELSE /\ out' = [out EXCEPT !.everest_st = "unavailable"]
          /\ pc' = "done"
  /\ UNCHANGED <<files, cache, tables, selected_year, selected_country,
                 filtered_exped, filtered_members, ties, last>>

\* a widget of the sidebar changes: Streamlit runs the script again from the
\* top; the cache of load_data lives on, the variables of the run do not.
\* last records what the finished run reported.
Rerun ==
  /\ pc \in {"done", "crashed"}
  /\ last' = [ran |-> TRUE, pc |-> pc, out |-> out, year |-> selected_year,
               country |-> selected_country]
  /\ pc' = "start"
  /\ out' = BlankOut
  /\ exped' = EmptyTable
  /\ members' = EmptyTable
  /\ peaks' = EmptyTable
  /\ refer' = EmptyTable
  /\ data_dict' = EmptyTable
  /\ filtered_exped' = EmptyTable
  /\ filtered_members' = EmptyTable
  /\ selected_year' = NoYear
  /\ selected_country' = NoSelection
  /\ UNCHANGED <<files, cache, ties>>

Next ==
  \/ Load
  \/ Filters
  \/ Top5
  \/ Dimensions
  \/ Percentage
  \/ MostSuccessful
  \/ Trend
  \/ Everest
  \/ Rerun

(***************************************************************************)
(* The files of a session.                                                 *)
(***************************************************************************)
\* the row of a file with columns cols that holds the cells of l
Project(cols, l) == [c \in Range(cols) |-> l[strip(c)]]

TablesOf(cols, L, n) ==
  {[cols |-> cols, rows |-> rs] : rs \in SeqsUpTo({Project(cols, l) : l \in L}, n)}

ReferFile ==
  [cols |-> <<" refid", "rtitle">>,
   rows |-> <<(" refid" :> "R1") @@ ("rtitle" :> "Himalayan Journal")>>]

DictFile ==
  [cols |-> <<"Field ", "Description">>,
   rows |-> <<("Field " :> "peakid") @@ ("Description" :> "Peak ID")>>]

DefaultExped ==
  [cols |-> <<"expid", "year", "success1">>,
   rows |-> <<[expid |-> "X1", year |-> 2000, success1 |-> "success"],
              [expid |-> "X2", year |-> 2001, success1 |-> "failure"]>>]

OneExped ==
  [cols |-> <<"expid", "year", "success1">>,
   rows |-> <<[expid |-> "X1", year |-> 2000, success1 |-> "success"]>>]

DefaultMembers ==
  [cols |-> <<"peakid", "fname", "citizen", "msuccess">>,
   rows |-> <<[peakid |-> "E1", fname |-> "Alice", citizen |-> "Nepal",
               msuccess |-> "yes"],
              [peakid |-> "K2", fname |-> "Bob", citizen |-> "UK",
               msuccess |-> "no"]>>]

DefaultPeaks ==
  [cols |-> <<"peakid", "pkname">>,
   rows |-> <<[peakid |-> "E1", pkname |-> "Mount Everest"],
              [peakid |-> "K2", pkname |-> "K2"]>>]

FilesOf(e, m, p, ok) ==
  [readable |-> ok, exped |-> e, members |-> m, peaks |-> p,
   refer |-> ReferFile, data_dict |-> DictFile]

ExpedSchemas ==
  {<<"expid", "year", "success1">>, <<" expid", "year ", " success1 ">>,
   <<"expid", "year">>, <<"year", "success1">>, <<"expid", "success1">>}

MemberSchemas ==
  {<<"peakid", "fname", "citizen", "msuccess">>,
   <<" peakid", "fname ", "citizen ", " msuccess">>,
   <<"peakid", "FName", "lname", "citizen", "MSuccess">>,
   <<"fname", "citizen", "msuccess">>,
   <<"peakid", "citizen", "msuccess">>,
   <<"peakid", "fname", "citizen">>,
   <<"peakid", "fname", "msuccess">>}

PeakSchemas ==
  {<<"peakid", "pkname">>, <<" peakid", "pkname ">>, <<"peakid">>, <<"pkname">>}

\* the rows of the expedition files: the identifier and the outcome vary, or
\* the year does
ExpedRowSets ==
  {[expid : {"X1", NA}, year : {2000}, success1 : {"success", "failure", NA}],
   [expid : {"X1"}, year : {2000, 2001, NaNYear}, success1 : {"success"}]}

\* the rows of the member files: the peak and the nationality vary, or the
\* name and the success flag do
MemberRowSets ==
  {[peakid : {"E1", NA}, fname : {"Alice"}, FName : {"Alice"}, lname : {"Sherpa"},
    citizen : {"Nepal", NA}, msuccess : {"yes"}, MSuccess : {"Yes"}],
   [peakid : {"E1"}, fname : {"Alice", NA}, FName : {"Alice", NA}, lname : {"Sherpa"},
    citizen : {"Nepal"}, msuccess : {"yes", "no"}, MSuccess : {"Yes", "no"}]}

PeakRowSets ==
  {[peakid : {"E1", "K2"}, pkname : {"Mount Everest", NA}]}

TablesOver(schemas, rowsets, n) ==
  UNION {TablesOf(cs, L, n) : cs \in schemas, L \in rowsets}

SchemaFiles ==
  {FilesOf(e, DefaultMembers, DefaultPeaks, TRUE) :
     e \in TablesOver(ExpedSchemas, ExpedRowSets, MaxRows)}
  \cup
  {FilesOf(DefaultExped, m, DefaultPeaks, TRUE) :
     m \in TablesOver(MemberSchemas, MemberRowSets, MaxRows)}
  \cup
  {FilesOf(DefaultExped, DefaultMembers, p, TRUE) :
     p \in TablesOver(PeakSchemas, PeakRowSets, MaxRows)}
  \cup
  {FilesOf(DefaultExped, DefaultMembers, DefaultPeaks, FALSE)}

InitRun ==
  /\ cache = [full |-> FALSE, tables |-> NoTables]
  /\ exped = EmptyTable
  /\ members = EmptyTable
  /\ peaks = EmptyTable
  /\ refer = EmptyTable
  /\ data_dict = EmptyTable
  /\ filtered_exped = EmptyTable
  /\ filtered_members = EmptyTable
  /\ selected_year = NoYear
  /\ selected_country = NoSelection
  /\ out = BlankOut
  /\ pc = "start"
  /\ last = [ran |-> FALSE, pc |-> "start", out |-> BlankOut, year |-> NoYear,
             country |-> NoSelection]

Init ==
  /\ files \in SchemaFiles
  /\ ties = "first"
  /\ InitRun

Spec == Init /\ [][Next]_vars

(***************************************************************************)
(* Sessions for the Everest count: the members' peaks and success flags    *)
(* and the peaks' names vary.                                              *)
(***************************************************************************)
EverestMemberRows ==
  {[peakid |-> r[1], fname |-> "Alice", citizen |-> "Nepal", msuccess |-> r[2]] :
     r \in {<<"E1", "yes">>, <<"E1", "no">>, <<"E1", "1">>, <<"K2", "Yes">>,
            <<"K2", "no">>}}

EverestPeakRows ==
  {[peakid |-> "E1", pkname |-> "Mount Everest"], [peakid |-> "K2", pkname |-> "EVEREST"],
   [peakid |-> "K2", pkname |-> "Lhotse"], [peakid |-> "E1", pkname |-> NA]}

EverestFiles ==
  {FilesOf(OneExped, m, p, TRUE) :
     m \in TablesOver({<<"peakid", "fname", "citizen", "msuccess">>,
                       <<"peakid", "fname", "citizen">>},
                      {EverestMemberRows}, MaxMembers),
     p \in TablesOver({<<"peakid", "pkname">>}, {EverestPeakRows}, MaxPeaks)}

InitEverest ==
  /\ files \in EverestFiles
  /\ ties = "first"
  /\ InitRun

SpecEverest == InitEverest /\ [][Next]_vars

(***************************************************************************)
(* Sessions for the top-5 chart: the members' peaks vary, the peak table   *)
(* may lack or repeat an identifier, the order of ties is either one.      *)
(***************************************************************************)
TopMemberRows ==
  {[peakid |-> k, fname |-> "Alice", citizen |-> "Nepal", msuccess |-> "yes"] :
     k \in {"E1", "K2"}}

TopPeakRows ==
  {[peakid |-> "E1", pkname |-> "Mount Everest"], [peakid |-> "K2", pkname |-> "K2"]}

TopFiles ==
  {FilesOf(OneExped, m, p, TRUE) :
     m \in TablesOver({<<"peakid", "fname", "citizen", "msuccess">>},
                      {TopMemberRows}, MaxTopMembers),
     p \in TablesOver({<<"peakid", "pkname">>}, {TopPeakRows}, MaxTopPeaks)}

InitTop5 ==
  /\ files \in TopFiles
  /\ ties \in {"first", "last"}
  /\ InitRun

SpecTop5 == InitTop5 /\ [][Next]_vars

(***************************************************************************)
(* Claims.                                                                 *)
(***************************************************************************)
Outputs == {"top5", "pct", "most", "trend", "everest"}

StatusOf(o) ==
  CASE o = "top5" -> out.top5_st
    [] o = "pct" -> out.pct_st
    [] o = "most" -> out.most_st
    [] o = "trend" -> out.trend_st
    [] o = "everest" -> out.everest_st

\* C1: a failure of one of the five analytical outputs never prevents the
\* other four from being computed and reported: when a run ends, every output
\* other than the one that failed has been reported.
C1_FailureIsolation ==
  (pc = "crashed" /\ out.failed_at \in Outputs)
    => \A o \in Outputs \ {out.failed_at} : StatusOf(o) # "pending"

\* C2: with no distinct peak identifier in the Peak table the percentage is
\* reported as indeterminate and no divide-by-zero failure surfaces.
C2_ZeroPeaksIndeterminate ==
  ( /\ HasCol(members, "peakid")
    /\ HasCol(peaks, "peakid")
    /\ nunique(Column(peaks, "peakid")) = 0
    /\ \/ pc \in {"most", "trend", "everest", "done"}
       \/ pc = "crashed" /\ out.failed_at = "pct" )
    => out.pct_st = "indeterminate" /\ out.error # "ZeroDivisionError"

\* C3: with at least one distinct peak identifier in Peak the reported
\* percentage lies in [0, 100] (climbed_pct is in hundredths of a percent).
C3_PercentageInRange ==
  out.pct_st = "metric" => 0 <= out.climbed_pct /\ out.climbed_pct <= 10000

\* the rows of members that count as successful
SuccessRows ==
  {i \in DOMAIN members.rows : IsSuccess(members.rows[i][success_cols(members)[1]])}

\* the number of successful rows of the climber named n
Wins(n) ==
  Cardinality({i \in SuccessRows : members.rows[i][name_cols(members)[1]] = n})

\* C5: the most-successful-climber operation never fails; it reports
\* indeterminate when there is no name column, no success column or no
\* successful row, and otherwise a name with the most successful rows.
C5_MostSuccessful ==
  /\ out.failed_at # "most"
  /\ out.most_st # "pending" =>
       IF name_cols(members) = <<>> \/ success_cols(members) = <<>>
       THEN out.most_st = "no_columns"
       ELSE IF SuccessRows = {}
            THEN out.most_st = "no_success"
            ELSE /\ out.most_st = "metric"
                 /\ Wins(out.most_successful) >= 1
                 /\ \A i \in DOMAIN members.rows :
                      Wins(members.rows[i][name_cols(members)[1]])
                        <= Wins(out.most_successful)

\* the entries of the long-form series for year y and metric m
TrendEntries(y, m) ==
  {k \in DOMAIN out.trend_data :
     out.trend_data[k].year = y /\ out.trend_data[k].Metric = m}

RowsOfYear(y) == {i \in DOMAIN exped.rows : exped.rows[i]["year"] = y}

\* C7: the yearly trend holds, for each year of the expedition table, one
\* total_expeditions entry counting every row of the year and one
\* successful_expeditions entry counting its rows with outcome "success",
\* and no entry of another year; so successes never exceed the total.
C7_YearlyTrend ==
  out.trend_st = "chart" =>
    /\ \A k \in DOMAIN out.trend_data : out.trend_data[k].year \in years
    /\ \A y \in years :
         /\ \E k \in TrendEntries(y, "total_expeditions") :
              /\ TrendEntries(y, "total_expeditions") = {k}
              /\ out.trend_data[k].Count = Cardinality(RowsOfYear(y))
         /\ \E k \in TrendEntries(y, "successful_expeditions") :
              /\ TrendEntries(y, "successful_expeditions") = {k}
              /\ out.trend_data[k].Count =
                   Cardinality({i \in RowsOfYear(y) :
                                  exped.rows[i]["success1"] = "success"})

NoNulls(t, c) == HasCol(t, c) => \A i \in DOMAIN t.rows : t.rows[i][c] # NA

\* C8: after a successful load no expedition row has a null outcome code and
\* no member row a null peak identifier or nationality, in the cached tables,
\* in the tables of every later run and in the filtered views.
C8_DefaultFill ==
  /\ \A e \in {cache.tables.exped, exped, filtered_exped} : NoNulls(e, "success1")
  /\ \A m \in {cache.tables.members, members, filtered_members} :
       NoNulls(m, "peakid") /\ NoNulls(m, "citizen")

\* a load that filled a missing peak identifier under a padded column name
C8_Witness ==
  /\ pc = "done"
  /\ files.members.cols[1] = " peakid"
  /\ Len(files.members.rows) >= 1
  /\ files.members.rows[1][" peakid"] = NA
  /\ files.members.rows[1]["citizen "] = NA
  /\ members.rows[1]["peakid"] = "UNKNOWN"
  /\ members.rows[1]["citizen"] = "UNKNOWN"

\* C9: once loaded, the tables are not written: every step of a run leaves
\* the five tables as they are, and the cached tables never change.
C9_NoMutationAfterLoad ==
  [][ /\ (pc # "start" /\ pc' # "start") => tables' = tables
      /\ cache.full => cache' = cache ]_vars

\* a finished run that filtered rows away and computed the outputs
C9_Witness ==
  /\ pc = "done"
  /\ Len(filtered_members.rows) < Len(members.rows)
  /\ Len(filtered_exped.rows) < Len(exped.rows)
  /\ out.top5_st = "shown"
  /\ out.everest_st = "metric"
  /\ cache.tables.members = members

ViewsBuilt ==
  \/ pc \in {"top5", "dims", "pct", "most", "trend", "everest", "done"}
  \/ pc = "crashed" /\ out.failed_at \notin {"start", "filters"}

\* view holds exactly the rows of base whose column c equals sel
ExactView(view, base, c, sel) ==
  /\ view.cols = base.cols
  /\ \A i \in DOMAIN view.rows : view.rows[i][c] = sel /\ view.rows[i] \in Range(base.rows)
  /\ Len(view.rows) = Cardinality({i \in DOMAIN base.rows : base.rows[i][c] = sel})

\* C10: a run reports the same outputs whatever year and nationality are
\* selected (a run ends as the run before it did), and the selection decides
\* only the filtered views, which hold exactly the rows of the selected year
\* and of the selected nationality.
C10_FilterNonInterference ==
  /\ (last.ran /\ pc \in {"done", "crashed"}) => (pc = last.pc /\ out = last.out)
  /\ ViewsBuilt => /\ ExactView(filtered_exped, exped, "year", selected_year)
                   /\ ExactView(filtered_members, members, "citizen", selected_country)

\* two finished runs of a session with different selections
C10_Witness ==
  /\ last.ran
  /\ last.pc = "done"
  /\ pc = "done"
  /\ last.year # selected_year
  /\ last.country # selected_country
  /\ out.top5_st = "shown"

\* the identifiers of the Peak rows whose display name contains "Everest"
EverestPeakIds ==
  {peaks.rows[j]["peakid"] :
     j \in {j \in DOMAIN peaks.rows : ContainsEverest(peaks.rows[j]["pkname"])}}

HasSuccessColumn == \E c \in Range(members.cols) : ContainsSuccess(c)

\* C6: with a peak identifier column and a success-indicator column in
\* Member, the reported count is the number of member rows on a peak whose
\* name contains "Everest" with a success value in the literal set; without a
\* success-indicator column the operation reports unavailable, not zero.
C6_EverestCount ==
  /\ out.everest_st = "metric" =>
       /\ HasCol(members, "peakid") /\ HasSuccessColumn
       /\ out.everest_climbers =
            Cardinality({i \in DOMAIN members.rows :
                           /\ members.rows[i]["peakid"] \in EverestPeakIds
                           /\ lower(astype_str(members.rows[i][success_cols(members)[1]]))
                                \in {"true", "1", "y", "yes"}})
  /\ (pc = "done" /\ HasCol(members, "peakid") /\ HasSuccessColumn)
       => out.everest_st = "metric"
  /\ (pc = "done" /\ ~HasSuccessColumn)
       => out.everest_st = "unavailable" /\ out.everest_climbers = 0

\* three members on E1, "Mount Everest", with "yes", "no", "1": the count is 2
C6_Witness ==
  /\ pc = "done"
  /\ HasCol(members, "msuccess")
  /\ peaks.rows = <<[peakid |-> "E1", pkname |-> "Mount Everest"]>>
  /\ Column(members, "peakid") = <<"E1", "E1", "E1">>
  /\ Column(members, "msuccess") = <<"yes", "no", "1">>
  /\ out.everest_st = "metric"
  /\ out.everest_climbers = 2

\* the number of member rows with peak identifier k
Climbers(k) == Cardinality({i \in DOMAIN members.rows : members.rows[i]["peakid"] = k})

MemberPeakIds == Range(Column(members, "peakid"))

Top5Basics ==
  /\ Len(out.top5) <= 5
  /\ \A i \in DOMAIN out.top5 :
       /\ out.top5[i].peakid \in MemberPeakIds
       /\ out.top5[i].num_climbers = Climbers(out.top5[i].peakid)
       /\ i > 1 => out.top5[i - 1].num_climbers >= out.top5[i].num_climbers

Top5Distinct ==
  /\ \A i, j \in DOMAIN out.top5 : out.top5[i].peakid = out.top5[j].peakid => i = j
  /\ Cardinality(MemberPeakIds) < 5 => Len(out.top5) = Cardinality(MemberPeakIds)

PeakIdsUnique ==
  \A i, j \in DOMAIN peaks.rows :
    peaks.rows[i]["peakid"] = peaks.rows[j]["peakid"] => i = j

\* C4 as stated: the top-5 result has at most 5 rows with counts in
\* non-increasing order, each row a distinct member peak identifier with its
\* number of member rows, and with fewer than 5 distinct identifiers among
\* members as many rows as identifiers, whatever rows Peak has.
C4_Top5Shape_AsStated ==
  out.top5_st = "shown" => Top5Basics /\ Top5Distinct

\* C4, amended: the top-5 result has at most 5 rows with counts in
\* non-increasing order, each row a member peak identifier with its number of
\* member rows; when Peak has at most one row for each identifier the
\* identifiers of the rows are distinct and, with fewer than 5 distinct
\* identifiers among members, there are as many rows as identifiers.
C4_Top5Shape ==
  out.top5_st = "shown" => Top5Basics /\ (PeakIdsUnique => Top5Distinct)

\* two identifiers with 2 and 1 members, the second without a Peak row
C4_Witness ==
  /\ out.top5_st = "shown"
  /\ PeakIdsUnique
  /\ Len(out.top5) = 2
  /\ out.top5[1].num_climbers = 2
  /\ out.top5[2].num_climbers = 1
  /\ out.top5[2].pkname = NA
  /\ out.top5[1].pkname # NA

====
